---------------------------- MODULE Spec2Model ----------------------------
(***************************************************************************)
(* A model of the dnsx enumeration pipeline, internal/runner/runner.go:    *)
(* input expansion into the Work Set (prepareInput), the Work Set scan     *)
(* with its resume cursor (InputWorker, SaveResumeConfig), the resolver    *)
(* workers behind the rate limiter (worker), the output sink               *)
(* (HandleOutput) and the wildcard pass of run.                            *)
(*                                                                         *)
(* Strings are sequences of one-character strings, so that trimming,       *)
(* substring search and replacement are computed as the code computes them.*)
(***************************************************************************)
EXTENDS Integers, Sequences, FiniteSets, TLC

VARIABLES
    options,     \* r.options: the configuration of the run
    env,         \* the world outside: what the DNS client answers
    sc,          \* prepareInput: the input lines still to be read
    inputLines,  \* history: every line the input source delivers
    hm,          \* r.hm, the Work Set: a sequence of (key, value) in scan order
    numHosts,    \* prepareInput: the local counter numHosts
    runPC,       \* the position of run() (the coordinator)
    resumeCfg,   \* r.options.resumeCfg
    iw,          \* the InputWorker goroutine and r.workerchan
    worker,      \* the resolver workers, goroutines 1..Threads
    limiter,     \* r.limiter
    out,         \* r.outputchan and the HandleOutput goroutine
    wc,          \* the wildcard pass of run and the wildcardWorker goroutines
    disk,        \* the resume file, and which process of the program is running
    hist         \* history: what was handed over, sent, acquired and queried

vars == <<options, env, sc, inputLines, hm, numHosts, runPC, resumeCfg, iw,
          worker, limiter, out, wc, disk, hist>>

----------------------------------------------------------------------------
(* Bounds of the model *)

MaxLines == 3

----------------------------------------------------------------------------
(* Strings *)

Range(s) == {s[i] : i \in 1..Len(s)}

RECURSIVE TrimLeft(_)
TrimLeft(s) == IF s # <<>> /\ Head(s) = " " THEN TrimLeft(Tail(s)) ELSE s

RECURSIVE TrimRight(_)
TrimRight(s) ==
    IF s # <<>> /\ s[Len(s)] = " " THEN TrimRight(SubSeq(s, 1, Len(s) - 1)) ELSE s

\* strings.TrimSpace
TrimSpace(s) == TrimRight(TrimLeft(s))

LowerChar(c) ==
    CASE c = "A" -> "a"
      [] c = "B" -> "b"
      [] c = "F" -> "f"
      [] c = "U" -> "u"
      [] c = "Z" -> "z"
      [] c = "S" -> "s"
      [] OTHER -> c

\* strings.ToLower
ToLower(s) == [i \in 1..Len(s) |-> LowerChar(s[i])]

HasPrefixAt(s, sub, i) ==
    /\ i + Len(sub) - 1 <= Len(s)
    /\ SubSeq(s, i, i + Len(sub) - 1) = sub

\* strings.Contains
Contains(s, sub) == \E i \in 1..Len(s) : HasPrefixAt(s, sub, i)

\* strings.ReplaceAll, for a non-empty old
RECURSIVE ReplaceAll(_, _, _)
ReplaceAll(s, old, new) ==
    IF s = <<>> THEN <<>>
    ELSE IF HasPrefixAt(s, old, 1)
         THEN new \o ReplaceAll(SubSeq(s, Len(old) + 1, Len(s)), old, new)
         ELSE <<Head(s)>> \o ReplaceAll(Tail(s), old, new)

FUZZ == <<"F", "U", "Z", "Z">>
Dot == <<".">>

Digits == {"1", "2", "9"}

----------------------------------------------------------------------------
(* The Work Set, r.hm: hybrid.HybridMap.  A sequence of entries in scan     *)
(* order; an entry holds its key and its value (NoData is the nil value    *)
(* prepareInput stores).                                                   *)

NoData == [stored |-> FALSE]

hmKeys(m) == [i \in 1..Len(m) |-> m[i].k]
hmKeySet(m) == {m[i].k : i \in 1..Len(m)}

\* r.hm.Get(host): the ok result
hmHas(m, host) == \E i \in 1..Len(m) : m[i].k = host

\* r.hm.Get(host): the value
hmGet(m, host) == m[CHOOSE i \in 1..Len(m) : m[i].k = host].v

\* r.hm.Set(host, v)
hmSet(m, host, v) ==
    IF hmHas(m, host)
    THEN [i \in 1..Len(m) |-> IF m[i].k = host THEN [k |-> host, v |-> v] ELSE m[i]]
    ELSE Append(m, [k |-> host, v |-> v])

\* r.hm.Set(host, v) of a key the map does not hold, while a scan of the map
\* goes on: the place q the key takes in the scan order is the map's choice
hmInsert(m, q, host, v) ==
    SubSeq(m, 1, q - 1) \o <<[k |-> host, v |-> v]>> \o SubSeq(m, q, Len(m))

----------------------------------------------------------------------------
(* prepareInput *)

\* normalize
normalize(data) == TrimSpace(data)

\* iputil.IsCIDR: an address prefix, a slash
IsCIDR(item) == Len(item) >= 2 /\ item[Len(item)] = "/" /\
                \A i \in 1..(Len(item) - 1) : item[i] \in Digits

\* mapcidr.IPAddressesAsStream: the addresses of the block, in order
IPAddressesAsStream(item) ==
    LET p == SubSeq(item, 1, Len(item) - 1) IN <<p \o <<"1">>, p \o <<"2">>>>

\* asn.IsASN: "AS" and a number
IsASN(item) == Len(item) >= 3 /\ ToLower(SubSeq(item, 1, 2)) = <<"a", "s">> /\
               \A i \in 3..Len(item) : item[i] \in Digits

\* asn.GetIPAddressesAsStream: the addresses of the prefixes the ASN announces
GetIPAddressesAsStream(item) ==
    LET n == SubSeq(item, 3, Len(item)) IN <<n \o <<"1">>, n \o <<"2">>>>

\* What addHostsToHMapFromList counted with duplicates counted: every host.
RECURSIVE addHostsCountAll(_, _)
addHostsCountAll(m, hosts) ==
    IF hosts = <<>> THEN [hm |-> m, n |-> 0]
    ELSE LET h == Head(hosts)
             rest == addHostsCountAll(IF hmHas(m, h) THEN m ELSE hmSet(m, h, NoData),
                                      Tail(hosts))
         IN  [hm |-> rest.hm, n |-> rest.n + 1]

\* addHostsToHMapFromList and addHostsToHMapFromChan (the same loop over a
\* slice and over a channel): the Work Set after the loop and the count returned
RECURSIVE addHostsToHMap(_, _)
addHostsToHMap(m, hosts) ==
    IF hosts = <<>> THEN [hm |-> m, n |-> 0]
    ELSE LET h == Head(hosts) IN
         IF hmHas(m, h)
         THEN addHostsToHMap(m, Tail(hosts))
         ELSE LET rest == addHostsToHMap(hmSet(m, h, NoData), Tail(hosts))
              IN  [hm |-> rest.hm, n |-> rest.n + 1]

\* The hosts one input line expands to (the switch of prepareInput), for a
\* line whose wordlist argument is readable
ExpandLine(item, wordlist) ==
    CASE Contains(item, FUZZ) ->
            [i \in 1..Len(wordlist) |-> ReplaceAll(item, FUZZ, wordlist[i])]
      [] ~Contains(item, FUZZ) /\ wordlist # <<>> ->
            [i \in 1..Len(wordlist) |-> TrimSpace(wordlist[i]) \o Dot \o item]
      [] ~Contains(item, FUZZ) /\ wordlist = <<>> /\ IsCIDR(item) ->
            IPAddressesAsStream(item)
      [] ~Contains(item, FUZZ) /\ wordlist = <<>> /\ ~IsCIDR(item) /\ IsASN(item) ->
            GetIPAddressesAsStream(item)
      [] OTHER -> <<item>>

\* One iteration of the loop over sc: a line is normalized, expanded and
\* inserted.  A FUZZ line without a wordlist fails in preProcessArgument
\* ("empty argument") and prepareInput returns the error.
PrepareLine ==
    /\ runPC = "prepare"
    /\ sc # <<>>
    /\ LET item == normalize(Head(sc)) IN
       IF Contains(item, FUZZ) /\ options.WordList = <<>>
       THEN /\ runPC' = "error"
            /\ UNCHANGED <<hm, numHosts, sc>>
       ELSE LET r == addHostsToHMap(hm, ExpandLine(item, options.WordList)) IN
            /\ hm' = r.hm
            /\ numHosts' = numHosts + r.n
            /\ sc' = Tail(sc)
            /\ UNCHANGED runPC
    /\ UNCHANGED <<options, env, inputLines, resumeCfg, iw, worker, limiter, out, wc,
                   disk, hist>>

\* The input is exhausted: prepareInput returns nil and run goes on to
\* startWorkers
PrepareDone ==
    /\ runPC = "prepare"
    /\ sc = <<>>
    /\ runPC' = "start"
    /\ UNCHANGED <<options, env, sc, inputLines, hm, numHosts, resumeCfg, iw, worker,
                   limiter, out, wc, disk, hist>>

----------------------------------------------------------------------------
(* New: the configuration and what it is turned into *)

DefaultOptions ==
    [ WordList |-> <<>>, Threads |-> 1, RateLimit |-> 0,
      WildcardDomain |-> <<>>, WildcardThreshold |-> 1, rcodes |-> {},
      JSON |-> FALSE, Raw |-> FALSE, Trace |-> FALSE, AXFR |-> FALSE, ASN |-> FALSE,
      A |-> FALSE, AAAA |-> FALSE, Response |-> FALSE, ResponseOnly |-> FALSE,
      responseTypeFilterMap |-> <<>>, OutputFile |-> FALSE,
      ShowStatistics |-> FALSE, Stream |-> FALSE, QuestionTypes |-> <<>> ]

\* New: the question types asked for, A when there are none or when the
\* wildcard filter is on (options.A is set with it)
New(o) ==
    LET asked == (IF o.A THEN <<"A">> ELSE <<>>) \o (IF o.AAAA THEN <<"AAAA">> ELSE <<>>)
        addA == asked = <<>> \/ o.WildcardDomain # <<>>
    IN  [o EXCEPT !.A = o.A \/ addA,
                  !.QuestionTypes = asked \o (IF addA THEN <<"A">> ELSE <<>>)]

\* options.hasRCodes: a response-code list was given
hasRCodes == options.rcodes # {}

\* New: ratelimit.NewUnlimited unless RateLimit > 0
Unlimited == options.RateLimit <= 0

----------------------------------------------------------------------------
(* The DNS client: what a query returns is the world's choice, env.dns *)

NOERROR == 0
NXDOMAIN == 3

\* dns.RcodeToString
RcodeToString == [c \in {NOERROR, NXDOMAIN} |->
                     IF c = NOERROR THEN "NOERROR" ELSE "NXDOMAIN"]

NilAnswer ==
    [isNil |-> TRUE, hasHost |-> FALSE, HostsFile |-> FALSE, StatusCodeRaw |-> NOERROR,
     A |-> <<>>, AAAA |-> <<>>, AXFR |-> FALSE]

Resolved(rcode, a, aaaa) ==
    [isNil |-> FALSE, hasHost |-> TRUE, HostsFile |-> FALSE, StatusCodeRaw |-> rcode,
     A |-> a, AAAA |-> aaaa, AXFR |-> FALSE]

HostsFileEntry(a) == [Resolved(NOERROR, a, <<>>) EXCEPT !.HostsFile = TRUE]

\* What the DNS client may answer for a host: env.dns gives the answers the
\* world may give, a host it does not know gets no answer
Answers(domain) ==
    IF domain \in DOMAIN env.dns THEN env.dns[domain] ELSE {NilAnswer}

\* r.dnsx.QueryMultiple(domain), the world answering a: the records of the
\* question types asked
QueryMultiple(a) ==
    LET qt == Range(options.QuestionTypes)
    IN  [a EXCEPT !.A = IF "A" \in qt THEN a.A ELSE <<>>,
                  !.AAAA = IF "AAAA" \in qt THEN a.AAAA ELSE <<>>]

----------------------------------------------------------------------------
(* worker: what one host is turned into *)

\* isURL, extractDomain: a URL is scheme ":" host
isURL(domain) == ":" \in Range(domain)

RECURSIVE extractDomain(_)
extractDomain(domain) ==
    IF ":" \in Range(domain) THEN extractDomain(Tail(domain)) ELSE domain

\* The response-code filter with the hosts-file exemption left out
SkipByRcodeAlways(d) ==
    options.rcodes # {} /\ d.StatusCodeRaw \notin options.rcodes

\* worker: "results from hosts file are always returned", otherwise "skip
\* responses not having the expected response code"
SkipByRcode(d) ==
    /\ ~d.HostsFile
    /\ options.rcodes # {}
    /\ d.StatusCodeRaw \notin options.rcodes

\* The record types shouldSkipRecord knows besides A and AAAA; the answers
\* here have no record of these types
OtherRecordTypes ==
    { <<"c", "n", "a", "m", "e">>, <<"n", "s">>, <<"t", "x", "t">>, <<"m", "x">>,
      <<"s", "o", "a">>, <<"s", "r", "v">>, <<"p", "t", "r">>, <<"c", "a", "a">> }

\* shouldSkipRecord: the filter entries are examined in order; an entry that
\* is no record type ends the loop with false
RECURSIVE shouldSkip(_, _)
shouldSkip(filter, d) ==
    IF filter = <<>> THEN FALSE
    ELSE LET et == ToLower(TrimSpace(Head(filter))) IN
         CASE et = <<"a">> ->
                 IF Len(d.A) > 0 THEN TRUE ELSE shouldSkip(Tail(filter), d)
           [] et = <<"a", "a", "a", "a">> ->
                 IF Len(d.AAAA) > 0 THEN TRUE ELSE shouldSkip(Tail(filter), d)
           [] et \in OtherRecordTypes -> shouldSkip(Tail(filter), d)
           [] OTHER -> FALSE

shouldSkipRecord(d) == shouldSkip(options.responseTypeFilterMap, d)

Item(kind, domain, qtype, rec) ==
    [kind |-> kind, domain |-> domain, qtype |-> qtype, rec |-> rec]

\* The value of an item variable that holds nothing
NoItem == [from |-> 0 - 1, item |-> Item("", <<>>, "", <<>>)]

\* outputRecordType: what is sent for the records of one type
outputRecordType(domain, records, qtype) ==
    IF options.ResponseOnly
    THEN [i \in 1..Len(records) |-> Item("responly", <<>>, qtype, ToLower(records[i]))]
    ELSE IF options.Response
    THEN [i \in 1..Len(records) |-> Item("resp", domain, qtype, ToLower(records[i]))]
    ELSE IF records # <<>> THEN <<Item("host", domain, "", <<>>)>> ELSE <<>>

\* outputResponseCode
outputResponseCode(domain, responsecode) ==
    IF responsecode \in DOMAIN RcodeToString
    THEN <<Item("rcode", domain, RcodeToString[responsecode], <<>>)>>
    ELSE <<>>

\* worker, after the wildcard check: the items sent on outputchan for an answer
WorkerOutputs(domain, d) ==
    IF options.responseTypeFilterMap # <<>> /\ shouldSkipRecord(d) THEN <<>>
    ELSE IF options.JSON THEN <<Item("json", domain, "", <<>>)>>
    ELSE IF options.Raw THEN <<Item("raw", domain, "", <<>>)>>
    ELSE IF options.responseTypeFilterMap # <<>>
    THEN outputRecordType(domain, d.A, "A") \o outputRecordType(domain, d.AAAA, "AAAA")
    ELSE IF hasRCodes THEN outputResponseCode(domain, d.StatusCodeRaw)
    ELSE (IF options.A THEN outputRecordType(domain, d.A, "A") ELSE <<>>)
         \o (IF options.AAAA THEN outputRecordType(domain, d.AAAA, "AAAA") ELSE <<>>)

\* A worker that goes on to the output with wildcard filtering too
ProcessNoStore(a) ==
    LET d == QueryMultiple(a)
        nq == Len(options.QuestionTypes)
        nTrace == IF options.Trace THEN 1 ELSE 0
        nAXFR == IF options.AXFR THEN 1 ELSE 0
        nLookup == IF options.ASN /\ d.A = <<>> THEN 1 ELSE 0
        axfrDrop == /\ options.AXFR
                    /\ Len(options.QuestionTypes) = 1
                    /\ ~d.AXFR
                    /\ ~options.JSON
    IN  IF d.isNil \/ ~d.hasHost \/ SkipByRcode(d)
        THEN [verdict |-> "drop", data |-> d, queries |-> nq]
        ELSE IF axfrDrop
        THEN [verdict |-> "drop", data |-> d, queries |-> nq + nTrace + nAXFR]
        ELSE [verdict |-> "emit",
              data |-> d, queries |-> nq + nTrace + nAXFR + nLookup]

\* worker, from QueryMultiple to the dispatch: whether the answer is dropped,
\* stored (wildcard filtering) or emitted, and the queries the DNS client was
\* asked to make for it: one per question type, the trace, the transfer and
\* the A lookup of the ASN enrichment
Process(a) ==
    LET d == QueryMultiple(a)
        nq == Len(options.QuestionTypes)
        nTrace == IF options.Trace THEN 1 ELSE 0
        nAXFR == IF options.AXFR THEN 1 ELSE 0
        nLookup == IF options.ASN /\ d.A = <<>> THEN 1 ELSE 0
        axfrDrop == /\ options.AXFR
                    /\ Len(options.QuestionTypes) = 1
                    /\ ~d.AXFR
                    /\ ~options.JSON
    IN  IF d.isNil \/ ~d.hasHost \/ SkipByRcode(d)
        THEN [verdict |-> "drop", data |-> d, queries |-> nq]
        ELSE IF axfrDrop
        THEN [verdict |-> "drop", data |-> d, queries |-> nq + nTrace + nAXFR]
        ELSE [verdict |-> IF options.WildcardDomain # <<>> THEN "store" ELSE "emit",
              data |-> d, queries |-> nq + nTrace + nAXFR + nLookup]

\* storeDNSData: the value written to the Work Set under dnsdata.Host
StoredData(d) == [stored |-> TRUE, A |-> d.A, data |-> d]

----------------------------------------------------------------------------
(* InputWorker: the scan of the Work Set and the resume cursor *)

\* The scan callback reads the next key; with a resume configuration it
\* records it as the current host
IW_Visit ==
    /\ iw.pc = "scan"
    /\ iw.pos < Len(hm)
    /\ LET item == hm[iw.pos + 1].k IN
       IF resumeCfg.isNil
       THEN /\ iw' = [iw EXCEPT !.pos = @ + 1, !.item = item, !.pc = "send"]
            /\ UNCHANGED resumeCfg
       ELSE /\ iw' = [iw EXCEPT !.pos = @ + 1, !.item = item, !.pc = "index"]
            /\ resumeCfg' = [resumeCfg EXCEPT !.current = item]
    /\ UNCHANGED <<options, env, sc, inputLines, hm, numHosts, runPC, worker, limiter,
                   out, wc, disk, hist>>

\* The skip test of InputWorker with < for <=
IW_IndexOffByOne ==
    /\ iw.pc = "index"
    /\ resumeCfg' = [resumeCfg EXCEPT !.currentIndex = @ + 1]
    /\ iw' = [iw EXCEPT !.pc = IF resumeCfg'.currentIndex < resumeCfg.Index
                                THEN "scan" ELSE "send"]
    /\ UNCHANGED <<options, env, sc, inputLines, hm, numHosts, runPC, worker, limiter,
                   out, wc, disk, hist>>

\* currentIndex++, and the item is skipped while currentIndex <= Index
IW_Index ==
    /\ iw.pc = "index"
    /\ resumeCfg' = [resumeCfg EXCEPT !.currentIndex = @ + 1]
    /\ iw' = [iw EXCEPT !.pc = IF resumeCfg'.currentIndex <= resumeCfg.Index
                                THEN "scan" ELSE "send"]
    /\ UNCHANGED <<options, env, sc, inputLines, hm, numHosts, runPC, worker, limiter,
                   out, wc, disk, hist>>

\* The scan is over: close(r.workerchan)
IW_Close ==
    /\ iw.pc = "scan"
    /\ iw.pos = Len(hm)
    /\ iw' = [iw EXCEPT !.pc = "done", !.closed = TRUE]
    /\ UNCHANGED <<options, env, sc, inputLines, hm, numHosts, runPC, resumeCfg, worker,
                   limiter, out, wc, disk, hist>>

----------------------------------------------------------------------------
(* InputWorkerStream: the input lines are sent as they are read *)

\* The hosts of one line: the addresses of a CIDR block or of an ASN, or the
\* trimmed line itself
StreamHosts(line) ==
    LET item == TrimSpace(line) IN
    CASE IsCIDR(item) -> IPAddressesAsStream(item)
      [] ~IsCIDR(item) /\ IsASN(item) -> GetIPAddressesAsStream(item)
      [] OTHER -> <<item>>

\* sc.Scan() delivers a line: its first host is about to be sent, the others
\* wait on hostsC
IWS_Scan ==
    /\ iw.pc = "stream"
    /\ iw.hostsC = <<>>
    /\ sc # <<>>
    /\ LET hosts == StreamHosts(Head(sc)) IN
       iw' = [iw EXCEPT !.pc = "send", !.item = Head(hosts), !.hostsC = Tail(hosts)]
    /\ sc' = Tail(sc)
    /\ UNCHANGED <<options, env, inputLines, hm, numHosts, runPC, resumeCfg, worker,
                   limiter, out, wc, disk, hist>>

\* for host := range hostsC: the next address of the block
IWS_Next ==
    /\ iw.pc = "stream"
    /\ iw.hostsC # <<>>
    /\ iw' = [iw EXCEPT !.pc = "send", !.item = Head(iw.hostsC), !.hostsC = Tail(@)]
    /\ UNCHANGED <<options, env, sc, inputLines, hm, numHosts, runPC, resumeCfg, worker,
                   limiter, out, wc, disk, hist>>

\* The input is exhausted: close(r.workerchan)
IWS_Close ==
    /\ iw.pc = "stream"
    /\ iw.hostsC = <<>>
    /\ sc = <<>>
    /\ iw' = [iw EXCEPT !.pc = "done", !.closed = TRUE]
    /\ UNCHANGED <<options, env, sc, inputLines, hm, numHosts, runPC, resumeCfg, worker,
                   limiter, out, wc, disk, hist>>

----------------------------------------------------------------------------
(* worker *)

Workers == 1..options.Threads

\* domain := <-r.workerchan meets r.workerchan <- item: the channel has no
\* buffer, the two happen together.  A URL is reduced to its host.
W_Recv(w) ==
    /\ worker[w].pc = "recv"
    /\ iw.pc = "send"
    /\ worker' = [worker EXCEPT ![w].pc = "take",
                                ![w].domain = IF isURL(iw.item)
                                              THEN extractDomain(iw.item) ELSE iw.item]
    /\ iw' = [iw EXCEPT !.pc = IF options.Stream THEN "stream" ELSE "scan"]
    /\ hist' = [hist EXCEPT !.pushed = Append(@, iw.item)]
    /\ UNCHANGED <<options, env, sc, inputLines, hm, numHosts, runPC, resumeCfg, limiter,
                   out, wc, disk>>

\* The channel is closed and empty: the range loop ends, wgresolveworkers.Done
W_Exit(w) ==
    /\ worker[w].pc = "recv"
    /\ iw.closed
    /\ worker' = [worker EXCEPT ![w].pc = "done"]
    /\ UNCHANGED <<options, env, sc, inputLines, hm, numHosts, runPC, resumeCfg, iw,
                   limiter, out, wc, disk, hist>>

\* A Take that does not wait for a token
W_TakeNoWait(w) ==
    /\ worker[w].pc = "take"
    /\ worker' = [worker EXCEPT ![w].pc = "resolve"]
    /\ limiter' = [limiter EXCEPT !.tokens = IF Unlimited THEN @ ELSE @ - 1]
    /\ hist' = [hist EXCEPT !.takes = @ + 1]
    /\ UNCHANGED <<options, env, sc, inputLines, hm, numHosts, runPC, resumeCfg, iw, out,
                   wc, disk>>

\* r.limiter.Take(): blocks until a token is available
W_Take(w) ==
    /\ worker[w].pc = "take"
    /\ Unlimited \/ limiter.tokens > 0
    /\ worker' = [worker EXCEPT ![w].pc = "resolve"]
    /\ limiter' = [limiter EXCEPT !.tokens = IF Unlimited THEN @ ELSE @ - 1]
    /\ hist' = [hist EXCEPT !.takes = @ + 1]
    /\ UNCHANGED <<options, env, sc, inputLines, hm, numHosts, runPC, resumeCfg, iw, out,
                   wc, disk>>

\* From QueryMultiple to the dispatch.  A dropped answer goes back to the
\* loop; with wildcard filtering the answer is stored under dnsdata.Host, the
\* host that was queried (a failed store is logged and the loop goes on);
\* otherwise the items are sent one by one.  A key that is new to the Work
\* Set is stored while the scan of InputWorker may still go on: it lands
\* before the scan's position, and is not visited, or after it, and is.
W_Resolve(w) ==
    /\ worker[w].pc = "resolve"
    /\ \E a \in Answers(worker[w].domain) :
       LET p == Process(a)
           items == WorkerOutputs(worker[w].domain, p.data)
           tagged == [i \in 1..Len(items) |-> [from |-> w, item |-> items[i]]]
       IN
       /\ hist' = [hist EXCEPT !.queries = @ + p.queries,
                               !.sent[w] = IF p.verdict = "emit" THEN @ \o tagged ELSE @]
       /\ CASE p.verdict = "drop" ->
                 /\ worker' = [worker EXCEPT ![w].pc = "recv", ![w].domain = <<>>]
                 /\ UNCHANGED <<hm, iw>>
            [] p.verdict = "store" ->
                 /\ worker' = [worker EXCEPT ![w].pc = "recv", ![w].domain = <<>>]
                 /\ \E ok \in (IF env.storeFails THEN BOOLEAN ELSE {TRUE}),
                       q \in (IF hmHas(hm, worker[w].domain) THEN {0}
                              ELSE 1..(Len(hm) + 1)) :
                       /\ hm' = IF ~ok THEN hm
                                ELSE IF q = 0
                                THEN hmSet(hm, worker[w].domain, StoredData(p.data))
                                ELSE hmInsert(hm, q, worker[w].domain,
                                              StoredData(p.data))
                       /\ iw' = IF ok /\ q # 0 /\ q <= iw.pos
                                THEN [iw EXCEPT !.pos = @ + 1] ELSE iw
            [] p.verdict = "emit" ->
                 /\ worker' = [worker EXCEPT
                                  ![w].pc = IF tagged = <<>> THEN "recv" ELSE "send",
                                  ![w].domain = IF tagged = <<>> THEN <<>> ELSE @,
                                  ![w].outbox = tagged]
                 /\ UNCHANGED <<hm, iw>>
    /\ UNCHANGED <<options, env, sc, inputLines, numHosts, runPC, resumeCfg, limiter,
                   out, wc, disk>>

----------------------------------------------------------------------------
(* The rate limiter, ratelimit.New(ctx, RateLimit, time.Second): the bucket *)
(* is full at construction and is refilled once an interval.               *)
(* limiter.intervals counts the intervals begun.                           *)

\* An interval ends and the bucket is refilled.  An interval in which no
\* token was taken is not counted.
Tick ==
    /\ ~Unlimited
    /\ limiter.tokens < options.RateLimit
    /\ limiter' = [tokens |-> options.RateLimit, intervals |-> limiter.intervals + 1]
    /\ UNCHANGED <<options, env, sc, inputLines, hm, numHosts, runPC, resumeCfg, iw,
                   worker, out, wc, disk, hist>>

----------------------------------------------------------------------------
(* HandleOutput: the sink, and the sends that meet its receive *)

\* item := <-r.outputchan meets a worker's r.outputchan <- item
SinkRecvWorker(w) ==
    /\ out.pc = "recv"
    /\ worker[w].pc = "send"
    /\ out' = [out EXCEPT !.pc = "write", !.item = Head(worker[w].outbox)]
    /\ worker' = [worker EXCEPT ![w].outbox = Tail(@),
                                ![w].pc = IF Tail(worker[w].outbox) = <<>>
                                          THEN "recv" ELSE "send",
                                ![w].domain = IF Tail(worker[w].outbox) = <<>>
                                              THEN <<>> ELSE @]
    /\ UNCHANGED <<options, env, sc, inputLines, hm, numHosts, runPC, resumeCfg, iw,
                   limiter, wc, disk, hist>>

\* A sink that writes the newest item first
SinkWriteFront ==
    /\ out.pc = "write"
    /\ out' = [out EXCEPT !.pc = "recv", !.item = NoItem,
                          !.stdout = <<out.item>> \o @,
                          !.buf = IF options.OutputFile THEN <<out.item>> \o @ ELSE @]
    /\ UNCHANGED <<options, env, sc, inputLines, hm, numHosts, runPC, resumeCfg, iw,
                   worker, limiter, wc, disk, hist>>

\* w.WriteString(item) into the file's buffer when a file is configured, and
\* the line on stdout
SinkWrite ==
    /\ out.pc = "write"
    /\ out' = [out EXCEPT !.pc = "recv", !.item = NoItem,
                          !.stdout = Append(@, out.item),
                          !.buf = IF options.OutputFile THEN Append(@, out.item) ELSE @]
    /\ UNCHANGED <<options, env, sc, inputLines, hm, numHosts, runPC, resumeCfg, iw,
                   worker, limiter, wc, disk, hist>>

\* The channel is closed: the loop ends, the deferred Flush, Close and Done run
SinkExit ==
    /\ out.pc = "recv"
    /\ out.closed
    /\ out' = [out EXCEPT !.pc = "done", !.file = @ \o out.buf, !.buf = <<>>]
    /\ UNCHANGED <<options, env, sc, inputLines, hm, numHosts, runPC, resumeCfg, iw,
                   worker, limiter, wc, disk, hist>>

----------------------------------------------------------------------------
(* run: the coordinator of the first pass *)

\* startWorkers: the InputWorker (InputWorkerStream with -stream), the output
\* worker on a new outputchan, and Threads resolver workers; run and runStream
\* then wait for the resolver workers
StartWorkers ==
    /\ runPC = "start"
    /\ runPC' = IF options.Stream THEN "streamwait" ELSE "waitworkers"
    /\ iw' = [iw EXCEPT !.pc = IF options.Stream THEN "stream" ELSE "scan"]
    /\ out' = [out EXCEPT !.pc = "recv", !.closed = FALSE, !.made = @ + 1]
    /\ worker' = [w \in Workers |-> [worker[w] EXCEPT !.pc = "recv"]]
    /\ UNCHANGED <<options, env, sc, inputLines, hm, numHosts, resumeCfg, limiter, wc,
                   disk, hist>>

\* r.wgresolveworkers.Wait() returns; with statistics r.stats.Stop() may fail
\* and run returns its error; otherwise close(r.outputchan)
WorkersDone ==
    /\ runPC = "waitworkers"
    /\ \A w \in Workers : worker[w].pc = "done"
    /\ \E err \in (IF options.ShowStatistics /\ env.statsStopFails
                   THEN BOOLEAN ELSE {FALSE}) :
          IF err
          THEN /\ runPC' = "failed"
               /\ UNCHANGED out
          ELSE /\ runPC' = "waitsink"
               /\ out' = [out EXCEPT !.closed = TRUE, !.closes = @ + 1]
    /\ UNCHANGED <<options, env, sc, inputLines, hm, numHosts, resumeCfg, iw, worker,
                   limiter, wc, disk, hist>>

\* r.wgoutputworker.Wait() returns; without wildcard filtering run returns nil
SinkDone ==
    /\ runPC = "waitsink"
    /\ out.pc = "done"
    /\ runPC' = IF options.WildcardDomain # <<>> THEN "wildcard" ELSE "returned"
    /\ UNCHANGED <<options, env, sc, inputLines, hm, numHosts, resumeCfg, iw, worker,
                   limiter, out, wc, disk, hist>>

----------------------------------------------------------------------------
(* runStream *)

\* r.wgresolveworkers.Wait() returns: close(r.outputchan)
RS_WorkersDone ==
    /\ runPC = "streamwait"
    /\ \A w \in Workers : worker[w].pc = "done"
    /\ runPC' = "streamsink"
    /\ out' = [out EXCEPT !.closed = TRUE, !.closes = @ + 1]
    /\ UNCHANGED <<options, env, sc, inputLines, hm, numHosts, resumeCfg, iw, worker,
                   limiter, wc, disk, hist>>

\* r.wgoutputworker.Wait() returns and runStream returns nil
RS_SinkDone ==
    /\ runPC = "streamsink"
    /\ out.pc = "done"
    /\ runPC' = "returned"
    /\ UNCHANGED <<options, env, sc, inputLines, hm, numHosts, resumeCfg, iw, worker,
                   limiter, out, wc, disk, hist>>

----------------------------------------------------------------------------
(* run: the wildcard pass *)

Min(a, b) == IF a < b THEN a ELSE b

\* The scan callback of the wildcard pass for one entry: an entry without a
\* stored answer does not unmarshal and is ignored; each A record of the
\* others is added to ipDomain, a new IP to listIPs
RECURSIVE AddRecords(_, _, _)
AddRecords(acc, k, as) ==
    IF as = <<>> THEN acc
    ELSE LET a == Head(as)
             known == a \in DOMAIN acc.ipDomain
             dom == [ip \in DOMAIN acc.ipDomain \cup {a} |->
                        IF ip = a
                        THEN (IF known THEN acc.ipDomain[a] ELSE {}) \cup {k}
                        ELSE acc.ipDomain[ip]]
         IN  AddRecords([ipDomain |-> dom,
                         listIPs |-> IF known THEN acc.listIPs
                                     ELSE Append(acc.listIPs, a)],
                        k, Tail(as))

\* r.hm.Scan of the wildcard pass: ipDomain and listIPs
RECURSIVE BuildIPs(_, _)
BuildIPs(acc, m) ==
    IF m = <<>> THEN acc
    ELSE BuildIPs(IF Head(m).v.stored THEN AddRecords(acc, Head(m).k, Head(m).v.A)
                  ELSE acc,
                  Tail(m))

NoIPs == [ipDomain |-> [ip \in {} |-> {}], listIPs |-> <<>>]

\* The hosts of a group when the group must have more than WildcardThreshold
\* hosts
CandidatesAbove(hosts) ==
    IF Cardinality(hosts) > options.WildcardThreshold THEN hosts ELSE {}

\* The hosts of an IP group that the enqueue loop ranges over: the group
\* when it has at least WildcardThreshold hosts
Candidates(hosts) ==
    IF Cardinality(hosts) >= options.WildcardThreshold THEN hosts ELSE {}

\* The A records of the answer stored for a host
StoredA(m, host) ==
    IF hmHas(m, host) /\ hmGet(m, host).stored THEN Range(hmGet(m, host).A) ELSE {}

\* The parent suffixes of a host, longest first: what follows each dot
Parents(host) ==
    LET RECURSIVE From(_)
        From(i) ==
            IF i > Len(host) THEN <<>>
            ELSE IF host[i] = "."
                 THEN <<SubSeq(host, i + 1, Len(host))>> \o From(i + 1)
                 ELSE From(i + 1)
    IN  From(1)

\* What a probe of a random sibling under a parent may answer
ProbeAnswers(parent) ==
    IF parent \in DOMAIN env.probe THEN env.probe[parent] ELSE {{}}

\* The label walk of IsWildcard over the parents of a host, with the probes
\* answering as in `probed` where the cache has no entry: the cache after
\* the walk, and the union of the answers seen along it
Walk(host, cache, probed) ==
    LET ps == Range(Parents(host))
        after == [p \in DOMAIN cache \cup ps |->
                     IF p \in DOMAIN cache THEN cache[p] ELSE probed[p]]
    IN  [cache |-> after, seen |-> UNION {after[p] : p \in ps}]

\* IsWildcard: the A records of the host's stored answer are a subset of the
\* probe answers seen along the walk
IsWildcard(host, seen) == StoredA(hm, host) \subseteq seen

\* Start of the wildcard pass: the scan, and min(Threads, len(listIPs))
\* wildcard workers
WildScan ==
    /\ runPC = "wildcard"
    /\ LET b == BuildIPs(NoIPs, hm)
           n == Min(options.Threads, Len(b.listIPs))
       IN  wc' = [wc EXCEPT !.ipDomain = b.ipDomain, !.listIPs = b.listIPs,
                            !.ww = [i \in 1..n |-> [pc |-> "recv", host |-> <<>>]],
                            !.idx = 0, !.rest = {}, !.seen = {}]
    /\ runPC' = "enqueue"
    /\ UNCHANGED <<options, env, sc, inputLines, hm, numHosts, resumeCfg, iw, worker,
                   limiter, out, disk, hist>>

\* The outer loops of the wildcard pass (over listIPs): the next IP
NextGroup ==
    /\ runPC \in {"enqueue", "emit"}
    /\ wc.rest = {}
    /\ wc.idx < Len(wc.listIPs)
    /\ LET hosts == wc.ipDomain[wc.listIPs[wc.idx + 1]] IN
       wc' = [wc EXCEPT !.idx = @ + 1,
                        !.rest = IF runPC = "enqueue" THEN Candidates(hosts) ELSE hosts]
    /\ UNCHANGED <<options, env, sc, inputLines, hm, numHosts, runPC, resumeCfg, iw,
                   worker, limiter, out, disk, hist>>

\* The enqueue loop over the hosts of a group, in the order the map range
\* yields them: a host not seen is sent on wildcardworkerchan
EnqueuePick ==
    /\ runPC = "enqueue"
    /\ \E host \in wc.rest :
          IF host \in wc.seen
          THEN /\ wc' = [wc EXCEPT !.rest = @ \ {host}]
               /\ UNCHANGED runPC
          ELSE /\ wc' = [wc EXCEPT !.rest = @ \ {host}, !.seen = @ \cup {host},
                                   !.sending = host]
               /\ runPC' = "wsend"
    /\ UNCHANGED <<options, env, sc, inputLines, hm, numHosts, resumeCfg, iw, worker,
                   limiter, out, disk, hist>>

\* A coordinator that waits for the wildcard workers without closing the
\* channel
EnqueueNoClose ==
    /\ runPC = "enqueue"
    /\ wc.rest = {}
    /\ wc.idx = Len(wc.listIPs)
    /\ runPC' = "wwait"
    /\ UNCHANGED <<options, env, sc, inputLines, hm, numHosts, resumeCfg, iw, worker,
                   limiter, out, wc, disk, hist>>

\* close(r.wildcardworkerchan) after the last IP
EnqueueClose ==
    /\ runPC = "enqueue"
    /\ wc.rest = {}
    /\ wc.idx = Len(wc.listIPs)
    /\ wc' = [wc EXCEPT !.closed = TRUE]
    /\ runPC' = "wwait"
    /\ UNCHANGED <<options, env, sc, inputLines, hm, numHosts, resumeCfg, iw, worker,
                   limiter, out, disk, hist>>

\* host, more := <-r.wildcardworkerchan meets the coordinator's send
WW_Recv(i) ==
    /\ wc.ww[i].pc = "recv"
    /\ runPC = "wsend"
    /\ wc' = [wc EXCEPT !.ww[i] = [pc |-> "test", host |-> wc.sending],
                        !.sending = <<>>,
                        !.enqueued = Append(@, wc.sending)]
    /\ runPC' = "enqueue"
    /\ UNCHANGED <<options, env, sc, inputLines, hm, numHosts, resumeCfg, iw, worker,
                   limiter, out, disk, hist>>

\* A wildcard worker that marks every host it receives
WW_TestMarkAll(i) ==
    /\ wc.ww[i].pc = "test"
    /\ LET host == wc.ww[i].host
           missing == Range(Parents(host)) \ DOMAIN wc.cache
       IN  \E probed \in [missing -> UNION {ProbeAnswers(p) : p \in missing}] :
              /\ \A p \in missing : probed[p] \in ProbeAnswers(p)
              /\ LET w == Walk(host, wc.cache, probed) IN
                 wc' = [wc EXCEPT
                          !.cache = w.cache,
                          !.ww[i] = [pc |-> "recv", host |-> <<>>],
                          !.wildcards = @ \cup {host},
                          !.tested = IF IsWildcard(host, w.seen)
                                     THEN @ \cup {host} ELSE @]
    /\ UNCHANGED <<options, env, sc, inputLines, hm, numHosts, runPC, resumeCfg, iw,
                   worker, limiter, out, disk, hist>>

\* wildcardWorker: if r.IsWildcard(host), r.wildcards.Set(host).  The walk
\* probes the parents the cache does not hold and caches the answers.
WW_Test(i) ==
    /\ wc.ww[i].pc = "test"
    /\ LET host == wc.ww[i].host
           missing == Range(Parents(host)) \ DOMAIN wc.cache
       IN  \E probed \in [missing -> UNION {ProbeAnswers(p) : p \in missing}] :
              /\ \A p \in missing : probed[p] \in ProbeAnswers(p)
              /\ LET w == Walk(host, wc.cache, probed) IN
                 wc' = [wc EXCEPT
                          !.cache = w.cache,
                          !.ww[i] = [pc |-> "recv", host |-> <<>>],
                          !.wildcards = IF IsWildcard(host, w.seen)
                                        THEN @ \cup {host} ELSE @,
                          !.tested = IF IsWildcard(host, w.seen)
                                     THEN @ \cup {host} ELSE @]
    /\ UNCHANGED <<options, env, sc, inputLines, hm, numHosts, runPC, resumeCfg, iw,
                   worker, limiter, out, disk, hist>>

\* The channel is closed: the worker breaks out of its loop, Done
WW_Exit(i) ==
    /\ wc.ww[i].pc = "recv"
    /\ wc.closed
    /\ wc' = [wc EXCEPT !.ww[i].pc = "done"]
    /\ UNCHANGED <<options, env, sc, inputLines, hm, numHosts, runPC, resumeCfg, iw,
                   worker, limiter, out, disk, hist>>

\* A run that starts the final pass without r.wgwildcardworker.Wait()
WildWorkersNoWait ==
    /\ runPC = "wwait"
    /\ out' = [out EXCEPT !.pc = "recv", !.closed = FALSE, !.made = @ + 1]
    /\ wc' = [wc EXCEPT !.idx = 0, !.rest = {}, !.seen = {}]
    /\ runPC' = "emit"
    /\ UNCHANGED <<options, env, sc, inputLines, hm, numHosts, resumeCfg, iw, worker,
                   limiter, disk, hist>>

\* r.wgwildcardworker.Wait() returns: startOutputWorker on a new outputchan,
\* and the emission loop starts
WildWorkersDone ==
    /\ runPC = "wwait"
    /\ \A i \in DOMAIN wc.ww : wc.ww[i].pc = "done"
    /\ out' = [out EXCEPT !.pc = "recv", !.closed = FALSE, !.made = @ + 1]
    /\ wc' = [wc EXCEPT !.idx = 0, !.rest = {}, !.seen = {}]
    /\ runPC' = "emit"
    /\ UNCHANGED <<options, env, sc, inputLines, hm, numHosts, resumeCfg, iw, worker,
                   limiter, disk, hist>>

\* The branch of the emission loop for a host, without the seen check
EmitBranchNoSeen(host) ==
    IF host = options.WildcardDomain \/ host \notin wc.wildcards
    THEN "output"
    ELSE IF host \in wc.seenRemoved THEN "skip" ELSE "removed"

\* The branch of the emission loop for a host: the wildcard domain itself
\* and a host not in r.wildcards are output once, the others are counted once
EmitBranch(host) ==
    IF host = options.WildcardDomain \/ host \notin wc.wildcards
    THEN IF host \in wc.seen THEN "skip" ELSE "output"
    ELSE IF host \in wc.seenRemoved THEN "skip" ELSE "removed"

\* lookupAndOutput: with JSON the stored answer is read back and serialized,
\* and nothing is sent when that fails; otherwise the host is sent
lookupAndOutput(host, decoded) ==
    IF options.JSON /\ hmHas(hm, host)
    THEN IF decoded THEN <<Item("json", host, "", <<>>)>> ELSE <<>>
    ELSE <<Item("host", host, "", <<>>)>>

\* One iteration of the emission loop over the hosts of a group
EmitPick ==
    /\ runPC = "emit"
    /\ \E host \in wc.rest :
          LET branch == EmitBranch(host) IN
          \E decoded \in (IF branch = "output" /\ options.JSON /\ env.decodeFails
                          THEN BOOLEAN ELSE {TRUE}) :
             LET items == IF branch = "output" THEN lookupAndOutput(host, decoded)
                          ELSE <<>>
             IN
             /\ wc' = [wc EXCEPT
                         !.rest = @ \ {host},
                         !.seen = IF branch = "output" THEN @ \cup {host} ELSE @,
                         !.seenRemoved = IF branch = "removed" THEN @ \cup {host} ELSE @,
                         !.numRemoved = IF branch = "removed" THEN @ + 1 ELSE @,
                         !.undecoded = IF branch = "output" /\ items = <<>>
                                       THEN @ \cup {host} ELSE @,
                         !.item = IF items = <<>> THEN NoItem
                                  ELSE [from |-> 0, item |-> items[1]]]
             /\ runPC' = IF items = <<>> THEN "emit" ELSE "esend"
             /\ hist' = [hist EXCEPT !.sent[0] =
                            IF items = <<>> THEN @
                            ELSE Append(@, [from |-> 0, item |-> items[1]])]
    /\ UNCHANGED <<options, env, sc, inputLines, hm, numHosts, resumeCfg, iw, worker,
                   limiter, out, disk>>

\* item := <-r.outputchan meets the send of lookupAndOutput
SinkRecvRun ==
    /\ out.pc = "recv"
    /\ runPC = "esend"
    /\ out' = [out EXCEPT !.pc = "write", !.item = wc.item]
    /\ wc' = [wc EXCEPT !.item = NoItem]
    /\ runPC' = "emit"
    /\ UNCHANGED <<options, env, sc, inputLines, hm, numHosts, resumeCfg, iw, worker,
                   limiter, disk, hist>>

\* close(r.outputchan) after the last lookupAndOutput
EmitClose ==
    /\ runPC = "emit"
    /\ wc.rest = {}
    /\ wc.idx = Len(wc.listIPs)
    /\ out' = [out EXCEPT !.closed = TRUE, !.closes = @ + 1]
    /\ runPC' = "waitsink2"
    /\ UNCHANGED <<options, env, sc, inputLines, hm, numHosts, resumeCfg, iw, worker,
                   limiter, wc, disk, hist>>

\* r.wgoutputworker.Wait() returns, the count of removed subdomains is
\* printed and run returns nil
WildDone ==
    /\ runPC = "waitsink2"
    /\ out.pc = "done"
    /\ wc' = [wc EXCEPT !.reported = wc.numRemoved]
    /\ runPC' = "returned"
    /\ UNCHANGED <<options, env, sc, inputLines, hm, numHosts, resumeCfg, iw, worker,
                   limiter, out, disk, hist>>

----------------------------------------------------------------------------
(* The state after construction: New, and the resume configuration loaded  *)
(* with the options (Index 0 when there is no resume file)                 *)

\* A world in which no host is known to the DNS and nothing fails
QuietWorld == [dns |-> <<>>, probe |-> <<>>, storeFails |-> FALSE,
               decodeFails |-> FALSE, statsStopFails |-> FALSE]

\* Run: run starts with prepareInput; with -stream runStream starts the
\* workers at once
Run(o) == IF o.Stream THEN "start" ELSE "prepare"

\* The Runner of a new process: an empty Work Set, nothing started, the
\* resume configuration with the Index loaded from the resume file
NewRunner(o, lines, index) ==
    [ sc |-> lines, hm |-> <<>>, numHosts |-> 0,
      runPC |-> Run(o),
      resumeCfg |-> [isNil |-> FALSE, Index |-> index, currentIndex |-> 0,
                     current |-> <<>>],
      iw |-> [pc |-> "idle", item |-> <<>>, pos |-> 0, closed |-> FALSE,
              hostsC |-> <<>>],
      worker |-> [w \in 1..o.Threads |->
                     [pc |-> "idle", domain |-> <<>>, outbox |-> <<>>]],
      limiter |-> [tokens |-> IF o.RateLimit > 0 THEN o.RateLimit ELSE 0,
                   intervals |-> 1],
      out |-> [pc |-> "idle", closed |-> FALSE, item |-> NoItem, stdout |-> <<>>,
               buf |-> <<>>, file |-> <<>>, made |-> 0, closes |-> 0] ]

\* The wildcard state of a new Runner: no wildcard found, an empty cache
NewWildcard ==
    [ ipDomain |-> NoIPs.ipDomain, listIPs |-> <<>>, ww |-> <<>>, closed |-> FALSE,
      idx |-> 0, rest |-> {}, seen |-> {}, sending |-> <<>>, item |-> NoItem,
      enqueued |-> <<>>, wildcards |-> {}, cache |-> [p \in {} |-> {}],
      tested |-> {}, seenRemoved |-> {}, numRemoved |-> 0, undecoded |-> {},
      reported |-> 0 - 1 ]

Constructed(o, lines, e, index) ==
    LET r == NewRunner(o, lines, index) IN
    /\ options = New(o)
    /\ env = e
    /\ inputLines = lines
    /\ sc = r.sc
    /\ hm = r.hm
    /\ numHosts = r.numHosts
    /\ runPC = r.runPC
    /\ resumeCfg = r.resumeCfg
    /\ iw = r.iw
    /\ worker = r.worker
    /\ limiter = r.limiter
    /\ out = r.out
    /\ wc = NewWildcard
    /\ disk = [proc |-> 1, saver |-> "idle", Index |-> 0, ResumeFrom |-> <<>>]
    /\ hist = [pushed |-> <<>>, pushed1 |-> <<>>,
               sent |-> [p \in 0..o.Threads |-> <<>>], takes |-> 0, queries |-> 0]

----------------------------------------------------------------------------
(* The input expansion on its own: any input of at most MaxLines lines *)

RawLines ==
    { <<"a">>, <<"A">>, <<" ", "a">>, <<"a", " ">>, <<"b">>,
      <<"F", "U", "Z", "Z", ".", "a">>, <<"9", "/">>, <<"A", "S", "1">> }

WordLists == { <<>>, << <<"w">>, <<"b", " ">> >> }

SeqsUpTo(S, n) == UNION {[1..k -> S] : k \in 0..n}

InitInput ==
    \E lines \in SeqsUpTo(RawLines, MaxLines), wl \in WordLists :
        Constructed([DefaultOptions EXCEPT !.WordList = wl], lines, QuietWorld, 0)

NextInput == PrepareLine \/ PrepareDone

SpecInput == InitInput /\ [][NextInput]_vars

----------------------------------------------------------------------------
(* C5: input determinism *)

BareHost(line) ==
    LET item == TrimSpace(line) IN
    ~Contains(item, FUZZ) /\ ~IsCIDR(item) /\ ~IsASN(item)

\* C5: for an input of bare hosts and no wordlist, the key set of the Work Set
\* after prepareInput is the set of the trimmed, lower-cased hosts of the input.
C5_InputDeterminism ==
    (/\ runPC = "start"
     /\ options.WordList = <<>>
     /\ \A i \in 1..Len(inputLines) : BareHost(inputLines[i]))
    => hmKeySet(hm) = {ToLower(TrimSpace(inputLines[i])) : i \in 1..Len(inputLines)}

----------------------------------------------------------------------------
(* C6: idempotent insertion, unique count *)

NoDuplicateKeys(m) == \A i, j \in 1..Len(m) : m[i].k = m[j].k => i = j

\* C6: at every point of the expansion the count of hosts equals the number of
\* distinct keys of the Work Set, and no key is held twice.
C6_UniqueCount ==
    /\ numHosts = Cardinality(hmKeySet(hm))
    /\ NoDuplicateKeys(hm)

\* An expansion is over, its input repeated a host and lines of the list kind
\* and of the channel kind (a CIDR or ASN) both inserted.
C6_Witness ==
    /\ runPC = "start"
    /\ \E i, j \in 1..Len(inputLines) :
          i < j /\ TrimSpace(inputLines[i]) = TrimSpace(inputLines[j])
    /\ \E i \in 1..Len(inputLines) : IsCIDR(TrimSpace(inputLines[i]))
    /\ options.WordList = <<>>
    /\ numHosts = 3


----------------------------------------------------------------------------
(* SaveResumeConfig, the end of the process and the resumed process *)

\* resumeCfg.Index = r.options.resumeCfg.currentIndex, read while the scan
\* of the running process goes on
SaveReadIndex ==
    /\ disk.proc = 1
    /\ disk.saver = "idle"
    /\ runPC \in {"waitworkers", "waitsink"}
    /\ disk' = [disk EXCEPT !.saver = "index", !.Index = resumeCfg.currentIndex]
    /\ UNCHANGED <<options, env, sc, inputLines, hm, numHosts, runPC, resumeCfg, iw,
                   worker, limiter, out, wc, hist>>

\* resumeCfg.ResumeFrom = r.options.resumeCfg.current, and goconfig.Save
SaveWrite ==
    /\ disk.saver = "index"
    /\ disk' = [disk EXCEPT !.saver = "saved", !.ResumeFrom = resumeCfg.current]
    /\ UNCHANGED <<options, env, sc, inputLines, hm, numHosts, runPC, resumeCfg, iw,
                   worker, limiter, out, wc, hist>>

\* The process ends after the save and the program is started again with
\* -resume on the same input: a new Runner, the Index of the resume file
\* loaded, the Work Set built again by prepareInput
Restart ==
    /\ disk.proc = 1
    /\ disk.saver = "saved"
    /\ LET r == NewRunner(options, inputLines, disk.Index) IN
       /\ sc' = r.sc
       /\ hm' = r.hm
       /\ numHosts' = r.numHosts
       /\ runPC' = r.runPC
       /\ resumeCfg' = r.resumeCfg
       /\ iw' = r.iw
       /\ worker' = r.worker
       /\ limiter' = r.limiter
       /\ out' = r.out
    /\ disk' = [disk EXCEPT !.proc = 2]
    /\ hist' = [hist EXCEPT !.pushed1 = hist.pushed, !.pushed = <<>>,
                            !.sent = [p \in DOMAIN hist.sent |-> <<>>]]
    /\ UNCHANGED <<options, env, inputLines, wc>>

----------------------------------------------------------------------------
(* A run that is interrupted once, saved, and resumed *)

MaxThreads == 2
MaxHosts == 3

HostPool == << <<"a">>, <<"b">>, <<"c">>, <<"d">>, <<"e">> >>

TheHosts == SubSeq(HostPool, 1, MaxHosts)

\* Every host resolves to an address
PlainWorld ==
    [QuietWorld EXCEPT
        !.dns = [h \in Range(HostPool) |-> {Resolved(NOERROR, << <<"1">> >>, <<>>)}]]

FirstPass ==
    \/ PrepareLine \/ PrepareDone \/ StartWorkers
    \/ IW_Visit \/ IW_Index \/ IW_Close
    \/ \E w \in Workers : W_Recv(w) \/ W_Exit(w) \/ W_Take(w) \/ W_Resolve(w)
    \/ \E w \in Workers : SinkRecvWorker(w)
    \/ SinkWrite \/ SinkExit
    \/ WorkersDone \/ SinkDone

InitResume ==
    \E t \in 1..MaxThreads :
        Constructed([DefaultOptions EXCEPT !.Threads = t], TheHosts, PlainWorld, 0)

NextResume == FirstPass \/ SaveReadIndex \/ SaveWrite \/ Restart

SpecResume == InitResume /\ [][NextResume]_vars

----------------------------------------------------------------------------
(* C1: resume loses and repeats nothing *)

\* C1: when the resumed run is over, the hosts handed to the resolver workers
\* by the interrupted run followed by those handed over by the resumed run
\* are the hosts of the Work Set in scan order: the resumed run starts at the
\* host after the last one handed over, none is skipped by both runs and none
\* is handed over by both.
C1_ResumeLosesNothing ==
    (disk.proc = 2 /\ runPC = "returned")
    => hist.pushed1 \o hist.pushed = hmKeys(hm)

----------------------------------------------------------------------------
(* A run started with a resume cursor loaded: any Index up to one past the *)
(* size of the Work Set                                                    *)

InitScan ==
    \E t \in 1..MaxThreads, index \in 0..(MaxHosts + 1) :
        Constructed([DefaultOptions EXCEPT !.Threads = t], TheHosts, PlainWorld, index)

SpecScan == InitScan /\ [][FirstPass]_vars

----------------------------------------------------------------------------
(* C2: resume round trip *)

\* C2: in a run whose resume cursor was loaded with Index = I, the hosts
\* pushed onto the worker channel are, in scan order, the items of the Work
\* Set from position I+1 on, without a gap and each once; once the channel
\* is closed they reach the last item.
C2_ResumeRoundTrip ==
    LET keys == hmKeys(hm)
        I == resumeCfg.Index
        n == Len(hist.pushed)
    IN  /\ I + n <= Len(keys) \/ n = 0
        /\ hist.pushed = SubSeq(keys, I + 1, I + n)
        /\ iw.closed => I + n >= Len(keys)

\* A run with a cursor inside the Work Set has pushed every host after it.
C2_Witness ==
    /\ resumeCfg.Index = 1
    /\ iw.closed
    /\ Len(hist.pushed) = MaxHosts - 1
    /\ hist.pushed[1] = HostPool[2]

----------------------------------------------------------------------------
(* A run with wildcard filtering: hosts under the wildcard domain y.w and  *)
(* one outside it, answers and probes that may or may not coincide         *)

MaxThreshold == 2

DomainYW == <<"y", ".", "w">>

WildPool ==
    << <<"x", ".", "y", ".", "w">>, DomainYW, <<"n">>,
       <<"z", ".", "y", ".", "w">>, <<"m">> >>

WildHosts == SubSeq(WildPool, 1, MaxHosts)

IP1 == <<"1">>

IP2 == <<"2">>

\* x.y.w has one or two addresses, y.w one, n and m none or one, z.y.w no
\* answer or one address; a probe under y.w or under w finds nothing or one
\* address
WildWorld ==
    [QuietWorld EXCEPT
        !.dns = [h \in Range(WildPool) |->
                    CASE h = WildPool[1] -> {Resolved(NOERROR, <<IP1>>, <<>>),
                                             Resolved(NOERROR, <<IP1, IP2>>, <<>>)}
                      [] h = WildPool[2] -> {Resolved(NOERROR, <<IP2>>, <<>>)}
                      [] h = WildPool[4] -> {NilAnswer, Resolved(NOERROR, <<IP1>>, <<>>)}
                      [] OTHER -> {Resolved(NXDOMAIN, <<>>, <<>>),
                                   Resolved(NOERROR, <<IP1>>, <<>>)}],
        !.probe = [p \in {DomainYW, <<"w">>} |->
                      IF p = DomainYW THEN {{}, {IP1}} ELSE {{}, {IP2}}],
        !.decodeFails = TRUE]

WildcardPass ==
    \/ WildScan \/ NextGroup \/ EnqueuePick \/ EnqueueClose
    \/ \E i \in DOMAIN wc.ww : WW_Recv(i) \/ WW_Test(i) \/ WW_Exit(i)
    \/ WildWorkersDone \/ EmitPick \/ SinkRecvRun \/ EmitClose \/ WildDone

InitWild ==
    \E t \in 1..MaxThreads, th \in 1..MaxThreshold, json \in BOOLEAN :
        Constructed([DefaultOptions EXCEPT !.Threads = t, !.WildcardDomain = DomainYW,
                                           !.WildcardThreshold = th, !.JSON = json],
                    WildHosts, WildWorld, 0)

NextWild ==
    \/ PrepareLine \/ PrepareDone \/ StartWorkers
    \/ IW_Visit \/ IW_Index \/ IW_Close
    \/ \E w \in Workers : W_Recv(w) \/ W_Exit(w) \/ W_Take(w) \/ W_Resolve(w)
    \/ SinkWrite \/ SinkExit
    \/ WorkersDone \/ SinkDone
    \/ WildcardPass

SpecWild == InitWild /\ [][NextWild]_vars

\* How many times the final pass has put a host on the output
EmittedTimes(h) ==
    Cardinality({i \in 1..Len(out.stdout) :
                    out.stdout[i].from = 0 /\ out.stdout[i].item.domain = h})

WildRunReturned == runPC = "returned" /\ options.WildcardDomain # <<>>

C4_SubsetOfOneAncestor ==
    \A h \in wc.wildcards :
        \E p \in Range(Parents(h)) \cap DOMAIN wc.cache :
            StoredA(hm, h) \subseteq wc.cache[p]

\* C4 amended: every host in the wildcard set was put there by a worker
\* whose test succeeded, and its A records are a subset of the union of the
\* cached probe answers of its parents
C4_WildcardSubset ==
    \A h \in wc.wildcards :
        /\ h \in wc.tested
        /\ StoredA(hm, h) \subseteq
              UNION {wc.cache[p] : p \in Range(Parents(h)) \cap DOMAIN wc.cache}

\* The wildcard pass is over, one candidate is in the wildcard set and
\* another was tested and left out
C4_Witness ==
    /\ runPC = "returned"
    /\ WildPool[1] \in wc.wildcards
    /\ \E i \in 1..Len(wc.enqueued) : wc.enqueued[i] \notin wc.wildcards

----------------------------------------------------------------------------
(* A rate-limited run: one or two question types, with or without the      *)
(* trace, zone transfer and ASN enrichment                                  *)

MaxRate == 2

\* The second host has no A record, the others have one
RateWorld ==
    [QuietWorld EXCEPT
        !.dns = [h \in Range(HostPool) |->
                    IF h = HostPool[2] THEN {Resolved(NOERROR, <<>>, <<IP2>>)}
                    ELSE {Resolved(NOERROR, <<IP1>>, <<>>)}]]

InitRate ==
    \E t \in 1..MaxThreads, rl \in 1..MaxRate, both \in BOOLEAN, enrich \in BOOLEAN :
        Constructed([DefaultOptions EXCEPT !.Threads = t, !.RateLimit = rl,
                                           !.A = both, !.AAAA = both,
                                           !.Trace = enrich, !.AXFR = enrich,
                                           !.ASN = enrich],
                    TheHosts, RateWorld, 0)

NextRate == FirstPass \/ Tick

SpecRate == InitRate /\ [][NextRate]_vars

\* The hosts the workers have finished resolving: a token was taken for
\* each, and for each host being resolved now
Resolves == hist.takes - Cardinality({w \in Workers : worker[w].pc = "resolve"})

\* The most queries a worker issues for one host
MaxQueriesPerHost ==
    Len(options.QuestionTypes) + (IF options.Trace THEN 1 ELSE 0)
        + (IF options.AXFR THEN 1 ELSE 0) + (IF options.ASN THEN 1 ELSE 0)

----------------------------------------------------------------------------
(* A run with a response-code allow-list, with and without wildcard        *)
(* filtering; every host has one answer, of any kind                        *)

AnswerKinds ==
    { NilAnswer, Resolved(NXDOMAIN, <<>>, <<>>), Resolved(NOERROR, <<IP1>>, <<>>),
      HostsFileEntry(<<IP1>>) }

InitFilter ==
    \E kind \in [Range(TheHosts) -> AnswerKinds], code \in {NOERROR, NXDOMAIN},
       wd \in {<<>>, DomainYW} :
        Constructed([DefaultOptions EXCEPT !.rcodes = {code}, !.WildcardDomain = wd],
                    TheHosts,
                    [QuietWorld EXCEPT !.dns = [h \in Range(TheHosts) |-> {kind[h]}]],
                    0)

NextFilter == FirstPass \/ WildcardPass

SpecFilter == InitFilter /\ [][NextFilter]_vars

\* The answer the world gives for a host when it gives only one
AnswerOf(h) == CHOOSE a \in Answers(h) : TRUE

\* Some producer has sent an item for the host on the output channel
EmittedFor(h) ==
    \E p \in DOMAIN hist.sent :
        \E i \in 1..Len(hist.sent[p]) : hist.sent[p][i].item.domain = h

\* The Work Set holds an answer for the host
Stored(h) == hmHas(hm, h) /\ hmGet(hm, h).stored

\* The resolver workers have all exited
WorkersOver == runPC \notin {"prepare", "start", "waitworkers", "error", "failed"}

\* C8: with a response-code allow-list, a host whose answer is not from the
\* hosts file and whose code is not in the list is never emitted and never
\* stored; once the workers are done, a host that was answered with a code
\* in the list, or from the hosts file, has been emitted by a worker, or,
\* with wildcard filtering, stored in the Work Set
C8_RcodeFilter ==
    hasRCodes =>
        \A h \in hmKeySet(hm) :
            LET a == AnswerOf(h) IN
            /\ (~a.HostsFile /\ a.StatusCodeRaw \notin options.rcodes)
                  => (~EmittedFor(h) /\ ~Stored(h))
            /\ (WorkersOver /\ ~a.isNil
                    /\ (a.HostsFile \/ a.StatusCodeRaw \in options.rcodes))
                  => IF options.WildcardDomain # <<>>
                     THEN Stored(h)
                     ELSE \E i \in 1..Len(hist.sent[1]) :
                             hist.sent[1][i].item.domain = h

\* A returned run in which one host was dropped for its code, one passed
\* with a code in the list, and one passed from the hosts file with a code
\* that is not in the list
C8_Witness ==
    /\ runPC = "returned"
    /\ options.rcodes = {NXDOMAIN}
    /\ options.WildcardDomain = <<>>
    /\ AnswerOf(HostPool[1]) = Resolved(NOERROR, <<IP1>>, <<>>)
    /\ ~EmittedFor(HostPool[1])
    /\ AnswerOf(HostPool[2]) = Resolved(NXDOMAIN, <<>>, <<>>)
    /\ EmittedFor(HostPool[2])
    /\ AnswerOf(HostPool[3]) = HostsFileEntry(<<IP1>>)
    /\ EmittedFor(HostPool[3])

----------------------------------------------------------------------------
(* A run whose workers send two lines for a host (the response of each of   *)
(* its two A records), to stdout alone or to a file too, and a run whose    *)
(* final pass sends the lines                                                *)

SinkWorld ==
    [QuietWorld EXCEPT
        !.dns = [h \in Range(HostPool) |-> {Resolved(NOERROR, <<IP1, IP2>>, <<>>)}]]

InitSink ==
    \E t \in 1..MaxThreads, file \in BOOLEAN, wd \in {<<>>, DomainYW} :
        Constructed([DefaultOptions EXCEPT !.Threads = t, !.Response = TRUE,
                                           !.OutputFile = file, !.WildcardDomain = wd],
                    TheHosts, SinkWorld, 0)

NextSink == FirstPass \/ WildcardPass

SpecSink == InitSink /\ [][NextSink]_vars

\* The lines of a producer the sink has written, in the order written
Written(p) ==
    LET FromP(x) == x.from = p IN SelectSeq(out.stdout, FromP)

\* The line of a producer the sink has received and not yet written
InSink(p) ==
    IF out.pc = "write" /\ out.item.from = p THEN <<out.item>> ELSE <<>>

\* The lines a producer has still to hand over: the rest of a worker's
\* lines for its host, the line the final pass is sending
Pending(p) ==
    IF p = 0 THEN (IF runPC = "esend" THEN <<wc.item>> ELSE <<>>)
    ELSE worker[p].outbox

\* C9: what the sink has written, is writing and is still to receive from a
\* producer is, in this order, what the producer sent: no line is lost,
\* duplicated or reordered; the file gets the lines of stdout in the same
\* order; when run has returned every line sent is written
C9_SinkOrder ==
    /\ \A p \in DOMAIN hist.sent :
          Written(p) \o InSink(p) \o Pending(p) = hist.sent[p]
    /\ \A i \in 1..Len(out.stdout) : out.stdout[i].from \in DOMAIN hist.sent
    /\ options.OutputFile => out.file \o out.buf = out.stdout
    /\ ~options.OutputFile => out.file = <<>> /\ out.buf = <<>>
    /\ runPC = "returned" =>
          /\ \A p \in DOMAIN hist.sent : Written(p) = hist.sent[p]
          /\ options.OutputFile => out.file = out.stdout

\* A returned run in which two workers each sent several lines and the
\* sink wrote them interleaved, to the file too
C9_Witness ==
    /\ runPC = "returned"
    /\ options.OutputFile
    /\ \A w \in {1, 2} : w \in Workers /\ Len(hist.sent[w]) >= 2
    /\ out.stdout[1].from # out.stdout[2].from
    /\ Len(out.file) = 2 * MaxHosts

----------------------------------------------------------------------------
(* A run with or without statistics, whose stop may fail, writing to       *)
(* stdout alone or to a file too                                            *)

DrainWorld == [PlainWorld EXCEPT !.statsStopFails = TRUE]

InitDrain ==
    \E t \in 1..MaxThreads, stats \in BOOLEAN, file \in BOOLEAN :
        Constructed([DefaultOptions EXCEPT !.Threads = t, !.ShowStatistics = stats,
                                           !.OutputFile = file],
                    TheHosts, DrainWorld, 0)

SpecDrain == InitDrain /\ [][FirstPass]_vars

\* Every goroutine that is able to take a step eventually takes one
SpecDrainFair == SpecDrain /\ WF_vars(FirstPass)

\* run has returned, with nil or with the error of r.stats.Stop()
RunReturned == runPC \in {"returned", "failed"}

\* No goroutine is blocked on a channel: the InputWorker, the resolver
\* workers and the sink have exited
NothingBlocked ==
    /\ iw.pc = "done"
    /\ \A w \in Workers : worker[w].pc = "done"
    /\ out.pc = "done"

\* Every line sent on the output channel is on stdout, and in the file when
\* there is one
AllWritten ==
    /\ \A p \in DOMAIN hist.sent : Written(p) = hist.sent[p]
    /\ options.OutputFile => out.file = out.stdout

\* run eventually returns
RunEventuallyReturns == <>RunReturned

\* C10: when run has returned, the resolver workers have exited, the sink
\* has written every line sent and exited, and no goroutine is left blocked
\* on a channel
C10_ReturnsDrained == RunReturned => NothingBlocked /\ AllWritten

\* Without a failure of r.stats.Stop(), run returns drained
ReturnedNilDrained == runPC = "returned" => NothingBlocked /\ AllWritten

----------------------------------------------------------------------------
(* C11: a resume Index at or beyond the end of the Work Set *)

\* Every goroutine of the first pass that can take a step eventually does
SpecScanFair == SpecScan /\ WF_vars(FirstPass)

\* The Work Set is built and the loaded Index is not less than its size
IndexBeyond == runPC # "prepare" /\ resumeCfg.Index >= Len(hm)

\* Nothing was pushed to the workers and nothing was written
NothingDone == hist.pushed = <<>> /\ out.stdout = <<>>

\* C11: when the loaded resume Index is greater than or equal to the number
\* of Work Set entries, no host is ever pushed to the workers, nothing is
\* emitted and run does not fail; the worker channel is eventually closed
\* and run eventually returns nil
C11_IndexBeyondWorkSet ==
    /\ [](IndexBeyond => NothingDone /\ runPC \notin {"error", "failed"})
    /\ (IndexBeyond ~> (runPC = "returned" /\ iw.closed /\ NothingDone))

\* A returned run whose Index was the size of the Work Set: every host was
\* visited and skipped, the channel is closed
C11_Witness ==
    /\ runPC = "returned"
    /\ resumeCfg.Index = MaxHosts
    /\ Len(hm) = MaxHosts
    /\ resumeCfg.currentIndex = MaxHosts
    /\ iw.closed
    /\ NothingDone

----------------------------------------------------------------------------
(* C12: the count of removed wildcard subdomains *)

\* The hosts of the Work Set whose stored answer has an A record
HostsWithA == {h \in hmKeySet(hm) : StoredA(hm, h) # {}}

\* The hosts the final pass leaves out: in r.wildcards and not the
\* wildcard domain itself
Suppressed == wc.wildcards \ {options.WildcardDomain}

\* The number printed is the number of suppressed hosts, each counted once
ReportedIsSuppressed ==
    WildRunReturned => wc.reported = Cardinality(Suppressed)

\* The hosts the final pass output or failed to decode, and the hosts it
\* counted as removed, are together the hosts with an A record
OutputOrRemoved ==
    WildRunReturned =>
        Len(hist.sent[0]) + Cardinality(wc.undecoded) + wc.reported
            = Cardinality(HostsWithA)

\* C12: the number reported at the end of the wildcard pass is the number of
\* hosts in the wildcard set other than the wildcard domain, and the number
\* of lines the final pass emitted plus the number reported is the number
\* of hosts with at least one A record
C12_SuppressedCount ==
    WildRunReturned =>
        /\ wc.reported = Cardinality(Suppressed)
        /\ Len(Written(0)) + wc.reported = Cardinality(HostsWithA)

----------------------------------------------------------------------------
(* C13: the order of the final pass *)

\* The hosts of the lines the final pass has had written, in order
EmittedHosts ==
    [i \in 1..Len(Written(0)) |-> Written(0)[i].item.domain]

\* The hosts of an IP group in Work Set scan order
GroupInScanOrder(ip) ==
    LET InGroup(h) == ip \in StoredA(hm, h) IN SelectSeq(hmKeys(hm), InGroup)

\* The groups of the IPs of a list one after the other
RECURSIVE GroupedScan(_)
GroupedScan(ips) ==
    IF ips = <<>> THEN <<>>
    ELSE GroupInScanOrder(Head(ips)) \o GroupedScan(Tail(ips))

\* A sequence without the later occurrences of its elements
RECURSIVE FirstOccurrences(_, _)
FirstOccurrences(s, seen) ==
    IF s = <<>> THEN <<>>
    ELSE IF Head(s) \in seen THEN FirstOccurrences(Tail(s), seen)
    ELSE <<Head(s)>> \o FirstOccurrences(Tail(s), seen \cup {Head(s)})

\* The grouped scan of the hosts that are output: by IP in the order the
\* IPs were first seen, within a group in scan order, each host once
ScanOrderEmission ==
    LET Output(h) == h = options.WildcardDomain \/ h \notin wc.wildcards
    IN  FirstOccurrences(SelectSeq(GroupedScan(wc.listIPs), Output), {})

\* The position in listIPs of the first group a host belongs to
GroupRank(h) ==
    CHOOSE i \in 1..Len(wc.listIPs) :
        /\ h \in wc.ipDomain[wc.listIPs[i]]
        /\ \A j \in 1..(i - 1) : h \notin wc.ipDomain[wc.listIPs[j]]

\* The hosts are emitted group by group, in the order of listIPs
EmittedByGroup ==
    WildRunReturned =>
        \A i, j \in 1..Len(EmittedHosts) :
            i < j => GroupRank(EmittedHosts[i]) <= GroupRank(EmittedHosts[j])

\* C13: the hosts the final pass emits are, in order, the grouped scan of
\* the Work Set: a function of the Work Set and the wildcard set alone
C13_FinalPassOrder ==
    (WildRunReturned /\ wc.undecoded = {}) => EmittedHosts = ScanOrderEmission

----------------------------------------------------------------------------
(* C14: the classification of the input lines *)

\* The expansion of a line by its kind alone: FUZZ substitution for a line
\* with the token, the addresses of a CIDR block or of an ASN, the wordlist
\* cross-product for a bare host when there is a wordlist, else the host
ExpandByKind(item, wordlist) ==
    IF Contains(item, FUZZ)
    THEN [i \in 1..Len(wordlist) |-> ReplaceAll(item, FUZZ, wordlist[i])]
    ELSE IF IsCIDR(item) THEN IPAddressesAsStream(item)
    ELSE IF IsASN(item) THEN GetIPAddressesAsStream(item)
    ELSE IF wordlist # <<>>
    THEN [i \in 1..Len(wordlist) |-> TrimSpace(wordlist[i]) \o Dot \o item]
    ELSE <<item>>

\* The hosts of the input when every line is expanded by its kind
HostsByKind ==
    UNION {Range(ExpandByKind(normalize(inputLines[i]), options.WordList)) :
              i \in 1..Len(inputLines)}

\* Without a wordlist the Work Set holds the expansion of every line by
\* its kind
ExpandedByKindWithoutWordList ==
    (runPC = "start" /\ options.WordList = <<>>) => hmKeySet(hm) = HostsByKind

\* C14: in every configuration, the Work Set built by prepareInput holds
\* the addresses of every CIDR and ASN line, the wordlist cross-product of
\* the bare hosts only and the FUZZ substitution of the lines with the token
C14_InputClassification ==
    runPC = "start" => hmKeySet(hm) = HostsByKind

----------------------------------------------------------------------------
(* C15: who closes the channels, and when.  Runs with and without          *)
(* statistics and wildcard filtering                                        *)

InitClose ==
    \E t \in 1..MaxThreads, stats \in BOOLEAN, wd \in {<<>>, DomainYW} :
        Constructed([DefaultOptions EXCEPT !.Threads = t, !.ShowStatistics = stats,
                                           !.WildcardDomain = wd],
                    TheHosts, DrainWorld, 0)

NextClose == FirstPass \/ WildcardPass

SpecClose == InitClose /\ [][NextClose]_vars

\* No goroutine is at a send on a channel that is closed
SendsOnOpen ==
    /\ iw.pc = "send" => ~iw.closed
    /\ \A w \in Workers : worker[w].pc = "send" => ~out.closed
    /\ runPC = "wsend" => ~wc.closed
    /\ runPC = "esend" => ~out.closed

\* The steps of run from the wildcard scan to the start of the second sink,
\* and from there to the end
BeforeSecondSink == runPC \in {"wildcard", "enqueue", "wsend", "wwait"}
SecondSink == runPC \in {"emit", "esend", "waitsink2"}

\* A channel is closed only when its producers are done: workerchan by the
\* InputWorker as its last step, the first outputchan when every resolver
\* worker has exited, wildcardworkerchan after the last candidate, the
\* second outputchan after the last lookupAndOutput
ClosedAfterProducers ==
    /\ iw.closed => iw.pc = "done"
    /\ (out.made = 1 /\ out.closed) => \A w \in Workers : worker[w].pc = "done"
    /\ wc.closed => runPC \in {"wwait", "emit", "esend", "waitsink2", "returned"}
    /\ (out.made = 2 /\ out.closed) => runPC \in {"waitsink2", "returned"}

\* No outputchan is closed twice, and the second one is made only when the
\* first is closed and its sink has exited
ClosedAtMostOnce ==
    /\ out.closes <= out.made
    /\ out.made <= 2
    /\ BeforeSecondSink => out.made = 1 /\ out.closes = 1 /\ out.pc = "done"
    /\ SecondSink => out.made = 2 /\ out.closes >= 1

\* Every channel used has been closed: workerchan, each outputchan made,
\* and with wildcard filtering wildcardworkerchan
AllClosed ==
    /\ iw.closed
    /\ out.made >= 1 /\ out.closes = out.made
    /\ options.WildcardDomain # <<>> => wc.closed /\ out.made = 2

\* When run returns nil every channel has been closed
AllClosedOnNilReturn == runPC = "returned" => AllClosed

\* C15: each of workerchan, every outputchan and wildcardworkerchan is
\* closed exactly once, by its closer and after its producers are done, no
\* goroutine sends on a closed channel, and the second sink is started on a
\* new channel after the first has exited
C15_CloseDiscipline ==
    /\ SendsOnOpen
    /\ ClosedAfterProducers
    /\ ClosedAtMostOnce
    /\ RunReturned => AllClosed

----------------------------------------------------------------------------
(* C16: what a resolver worker does with an answer when wildcard filtering *)
(* is on.  Runs with and without wildcard filtering, zone transfer and     *)
(* JSON, with a response-code allow-list; hosts that pass every check,     *)
(* that have no zone transfer data, an unlisted code, no answer            *)

AXFRAnswer == [Resolved(NOERROR, <<IP1>>, <<>>) EXCEPT !.AXFR = TRUE]

DispatchWorld ==
    [QuietWorld EXCEPT
        !.dns = [h \in Range(HostPool) |->
                    CASE h = HostPool[1] -> {AXFRAnswer}
                      [] h = HostPool[2] -> {Resolved(NXDOMAIN, <<>>, <<>>)}
                      [] h = HostPool[3] -> {Resolved(NOERROR, <<IP1>>, <<>>)}
                      [] h = HostPool[4] -> {NilAnswer}
                      [] OTHER -> {HostsFileEntry(<<IP2>>)}]]

InitDispatch ==
    \E t \in 1..MaxThreads, wd \in {<<>>, DomainYW}, axfr \in BOOLEAN, json \in BOOLEAN :
        Constructed([DefaultOptions EXCEPT !.Threads = t, !.WildcardDomain = wd,
                                           !.AXFR = axfr, !.JSON = json,
                                           !.rcodes = {NOERROR}],
                    TheHosts, DispatchWorld, 0)

NextDispatch == FirstPass \/ WildcardPass

SpecDispatch == InitDispatch /\ [][NextDispatch]_vars

\* An answer that passes the checks a worker makes before the dispatch: it
\* is an answer for a host, its code is allowed, and a zone transfer asked
\* for alone has data
PassesChecks(a) ==
    /\ ~a.isNil /\ a.hasHost
    /\ a.HostsFile \/ options.rcodes = {} \/ a.StatusCodeRaw \in options.rcodes
    /\ ~(options.AXFR /\ Len(options.QuestionTypes) = 1 /\ ~a.AXFR /\ ~options.JSON)

----------------------------------------------------------------------------
(* C17: the order of the phases of a run with wildcard filtering *)

\* run is in its wildcard pass or has returned from it
InWildcardPass == BeforeSecondSink \/ SecondSink \/ WildRunReturned

\* run is in the final emission loop or past it
InEmission == SecondSink \/ WildRunReturned

\* In the wildcard pass every resolver worker has exited and the first sink
\* has drained and exited; in the emission loop every wildcard worker has
\* exited
PhasesInOrder ==
    /\ InWildcardPass =>
          /\ iw.pc = "done"
          /\ \A w \in Workers : worker[w].pc = "done"
          /\ out.made = 1 => out.pc = "done" /\ out.closed
          /\ ~WildRunReturned => out.made = (IF BeforeSecondSink THEN 1 ELSE 2)
    /\ InEmission => \A i \in DOMAIN wc.ww : wc.ww[i].pc = "done"

\* C17: the wildcard scan starts only when every resolver worker has exited
\* and the first sink has drained, and no step changes the Work Set from
\* then on; the emission loop starts only when every wildcard worker has
\* exited, and no step changes the wildcard set from then on
C17_PhaseOrdering ==
    /\ []PhasesInOrder
    /\ [][InWildcardPass => hm' = hm]_vars
    /\ [][InEmission => wc'.wildcards = wc.wildcards]_vars

\* The emission loop is running, two wildcard workers have run and exited,
\* and a host they found is in the wildcard set
C17_Witness ==
    /\ runPC = "esend"
    /\ Len(wc.ww) = 2
    /\ wc.wildcards # {}
    /\ \E h \in hmKeySet(hm) : Stored(h)

----------------------------------------------------------------------------
(* C18: the hosts that are probed *)

\* The hosts of the Work Set whose stored answer has the A record ip
HostsOf(ip) == {g \in hmKeySet(hm) : ip \in StoredA(hm, g)}

\* A host one of whose stored A records is shared by at least
\* WildcardThreshold hosts of the Work Set
IsCandidate(h) ==
    \E ip \in StoredA(hm, h) : Cardinality(HostsOf(ip)) >= options.WildcardThreshold

\* C18: only candidates are enqueued for probing, each at most once; when
\* wildcardworkerchan is closed every candidate has been enqueued; every
\* host of the wildcard set was enqueued
C18_CandidateSelection ==
    /\ \A i \in 1..Len(wc.enqueued) : IsCandidate(wc.enqueued[i])
    /\ \A i, j \in 1..Len(wc.enqueued) : wc.enqueued[i] = wc.enqueued[j] => i = j
    /\ wc.closed => \A h \in hmKeySet(hm) : IsCandidate(h) => h \in Range(wc.enqueued)
    /\ wc.wildcards \subseteq Range(wc.enqueued)

\* With threshold 2 a host with two addresses, each shared with another
\* host, was enqueued once, and so were the two others
C18_Witness ==
    /\ wc.closed
    /\ options.WildcardThreshold = 2
    /\ Cardinality(StoredA(hm, WildPool[1])) = 2
    /\ \A ip \in StoredA(hm, WildPool[1]) : Cardinality(HostsOf(ip)) = 2
    /\ Len(wc.enqueued) = 3

----------------------------------------------------------------------------
(* C19: the response-type filter.  A and AAAA are asked; the filter is any *)
(* list of at most MaxFilter entries, among them one that is no record     *)
(* type; hosts with an A record, an AAAA record, both                       *)

MaxFilter == 2

FilterEntries == { <<"a">>, <<" ", "A">>, <<"a", "a", "a", "a">>, <<"m", "x">>, <<"x">> }

TypeWorld ==
    [QuietWorld EXCEPT
        !.dns = [h \in Range(HostPool) |->
                    CASE h = HostPool[1] -> {Resolved(NOERROR, <<IP1>>, <<>>)}
                      [] h = HostPool[2] -> {Resolved(NOERROR, <<>>, <<IP2>>)}
                      [] h = HostPool[3] -> {Resolved(NOERROR, <<IP1>>, <<IP2>>)}
                      [] OTHER -> {Resolved(NOERROR, <<>>, <<>>)}]]

InitTypeFilter ==
    \E filter \in SeqsUpTo(FilterEntries, MaxFilter) \ {<<>>} :
        Constructed([DefaultOptions EXCEPT !.A = TRUE, !.AAAA = TRUE,
                                           !.responseTypeFilterMap = filter],
                    TheHosts, TypeWorld, 0)

SpecTypeFilter == InitTypeFilter /\ [][FirstPass]_vars

\* The record types the filter names
FilteredTypes ==
    {ToLower(TrimSpace(options.responseTypeFilterMap[i])) :
        i \in 1..Len(options.responseTypeFilterMap)}

\* The answer has a record of a type the filter names
HasFilteredRecord(a) ==
    \/ <<"a">> \in FilteredTypes /\ a.A # <<>>
    \/ <<"a", "a", "a", "a">> \in FilteredTypes /\ a.AAAA # <<>>

\* A host whose answer has a record of a filtered type is never emitted; a
\* host whose answer has records, none of a filtered type, has been
\* emitted once the workers are done
FilterDecides ==
    \A h \in hmKeySet(hm) :
        LET a == AnswerOf(h) IN
        /\ HasFilteredRecord(a) => ~EmittedFor(h)
        /\ (WorkersOver /\ ~HasFilteredRecord(a) /\ a.A \o a.AAAA # <<>>)
              => EmittedFor(h)

\* With a filter that names record types only, the filter decides
FilterOfRecordTypesDecides ==
    FilteredTypes \subseteq {<<"a">>, <<"a", "a", "a", "a">>} \cup OtherRecordTypes
        => FilterDecides

\* C19: with a response-type filter and no wildcard filtering, whatever the
\* order of the entries of the filter and whatever other entries it has, an
\* answer with a record of a filtered type is suppressed and an answer
\* with none is emitted
C19_ResponseTypeFilter ==
    (options.WildcardDomain = <<>> /\ options.responseTypeFilterMap # <<>>)
        => FilterDecides

----------------------------------------------------------------------------
(* C20: the default output.  A, AAAA or both are asked (A when none is),   *)
(* hosts with an A record, an AAAA record, both                             *)

InitDefaultOutput ==
    \E t \in 1..MaxThreads, a \in BOOLEAN, aaaa \in BOOLEAN :
        Constructed([DefaultOptions EXCEPT !.Threads = t, !.A = a, !.AAAA = aaaa],
                    TheHosts, TypeWorld, 0)

SpecDefaultOutput == InitDefaultOutput /\ [][FirstPass]_vars

\* The number of lines sent on the output channel for a host
SentCount(h) ==
    Cardinality({pi \in UNION {{<<p, i>> : i \in 1..Len(hist.sent[p])} :
                                  p \in DOMAIN hist.sent} :
                    hist.sent[pi[1]][pi[2]].item.domain = h})

\* The requested record types of which the answer has a record
TypesWithRecords(a) ==
    {t \in Range(options.QuestionTypes) :
        \/ t = "A" /\ a.A # <<>>
        \/ t = "AAAA" /\ a.AAAA # <<>>}

\* Neither response, response-only, JSON, raw, response codes, a
\* response-type filter nor wildcard filtering is set
DefaultOutput ==
    /\ ~options.Response /\ ~options.ResponseOnly /\ ~options.JSON /\ ~options.Raw
    /\ ~hasRCodes /\ options.responseTypeFilterMap = <<>>
    /\ options.WildcardDomain = <<>>

\* With the default output a host is emitted once for every requested
\* record type of which its answer has a record
OncePerTypeWithRecords ==
    DefaultOutput =>
        \A h \in hmKeySet(hm) :
            /\ SentCount(h) <= Cardinality(TypesWithRecords(AnswerOf(h)))
            /\ WorkersOver => SentCount(h) = Cardinality(TypesWithRecords(AnswerOf(h)))

\* C20: with the default output a host is emitted at most once in total,
\* across all requested record types, and a host whose answer has no
\* record of a requested type is not emitted
C20_DefaultOutputOnce ==
    DefaultOutput =>
        \A h \in hmKeySet(hm) :
            /\ SentCount(h) <= 1
            /\ TypesWithRecords(AnswerOf(h)) = {} => SentCount(h) = 0
----------------------------------------------------------------------------
(* A run with -stream: any input of at most MaxLines lines, with and       *)
(* without a wildcard domain                                               *)

StreamLines == { <<"a">>, <<"a", " ">>, <<"9", "/">>, <<"A", "S", "1">> }

\* a, the first address of the block 9/ and the first of AS1 resolve to an
\* address, the second ones get no answer
StreamWorld ==
    [QuietWorld EXCEPT
        !.dns = [h \in { <<"a">>, <<"9", "1">>, <<"1", "1">> } |->
                    {Resolved(NOERROR, <<IP1>>, <<>>)}]]

InitStream ==
    \E lines \in SeqsUpTo(StreamLines, MaxLines), t \in 1..MaxThreads,
       wd \in {<<>>, DomainYW} :
        Constructed([DefaultOptions EXCEPT !.Stream = TRUE, !.Threads = t,
                                           !.WildcardDomain = wd],
                    lines, StreamWorld, 0)

NextStream ==
    \/ StartWorkers
    \/ IWS_Scan \/ IWS_Next \/ IWS_Close
    \/ \E w \in Workers : W_Recv(w) \/ W_Exit(w) \/ W_Take(w) \/ W_Resolve(w)
    \/ \E w \in Workers : SinkRecvWorker(w)
    \/ SinkWrite \/ SinkExit
    \/ RS_WorkersDone \/ RS_SinkDone

SpecStream == InitStream /\ [][NextStream]_vars

----------------------------------------------------------------------------
(* C21: stream mode isolation *)

\* The hosts of the input, line by line, every occurrence kept
RECURSIVE StreamInput(_)
StreamInput(lines) ==
    IF lines = <<>> THEN <<>> ELSE StreamHosts(Head(lines)) \o StreamInput(Tail(lines))

Occurrences(s, h) == Cardinality({i \in 1..Len(s) : s[i] = h})

\* The Work Set is neither written nor scanned
WorkSetUntouched == hm = <<>> /\ iw.pos = 0

\* The resume cursor is where New left it
ResumeUntouched == resumeCfg.currentIndex = 0 /\ resumeCfg.current = <<>>

\* What was handed to the resolver workers is the input so far, in order and
\* with its repetitions, and all of it once the channel is closed
InputSentStraight ==
    LET all == StreamInput(inputLines)
        n == Len(hist.pushed)
    IN  /\ n <= Len(all)
        /\ hist.pushed = SubSeq(all, 1, n)
        /\ iw.closed => n = Len(all)

\* When the run has returned, a host was written once for each time it was
\* sent to the workers if it resolves, and never if it does not
ResolvedEmitted ==
    runPC = "returned" =>
        \A h \in Range(StreamInput(inputLines)) :
            Occurrences([i \in 1..Len(out.stdout) |-> out.stdout[i].item.domain], h)
              = IF h \in DOMAIN env.dns THEN Occurrences(hist.pushed, h) ELSE 0

\* Without a wildcard domain the stream run is isolated as claimed
StreamIsolatedWithoutWildcard ==
    (options.Stream /\ options.WildcardDomain = <<>>)
    => WorkSetUntouched /\ ResumeUntouched /\ InputSentStraight /\ ResolvedEmitted

\* With a wildcard domain the input is still sent straight and the resume
\* cursor is left alone
StreamWithWildcardSendsInput ==
    options.Stream => ResumeUntouched /\ InputSentStraight /\ iw.pos = 0

\* C21: with -stream, whatever the other options (a wildcard domain
\* included), the Work Set is neither read nor written, the resume state is
\* neither read nor updated, every input host is sent to the worker channel
\* without deduplication, and every resolved host is emitted.
C21_StreamIsolation ==
    options.Stream
    => WorkSetUntouched /\ ResumeUntouched /\ InputSentStraight /\ ResolvedEmitted
----------------------------------------------------------------------------
(* A run with a resume cursor loaded, saved once while it goes on *)

NextSave == FirstPass \/ SaveReadIndex \/ SaveWrite

SpecSave == InitScan /\ [][NextSave]_vars

----------------------------------------------------------------------------
(* C22: consistency of the persisted cursor *)

\* The hosts the scan has handed over or, on a resumed run, skipped as handed
\* over by the run before
Handed == Min(resumeCfg.Index, resumeCfg.currentIndex) + Len(hist.pushed)

\* ResumeFrom is the host at scan position Index (nothing before the scan
\* has reached its first host)
SavedPairConsistent ==
    disk.saver = "saved" =>
        \/ disk.Index = 0 /\ disk.ResumeFrom = <<>>
        \/ /\ disk.Index \in 1..Len(hm)
           /\ hm[disk.Index].k = disk.ResumeFrom

\* The saved Index counts no host that was not handed to a worker
SavedIndexHanded == disk.saver # "idle" => disk.Index <= Handed

\* currentIndex is the absolute position of the scan: the number of hosts
\* it has counted, the skipped ones included
CursorIsScanPosition ==
    resumeCfg.currentIndex = iw.pos - (IF iw.pc = "index" THEN 1 ELSE 0)

\* The saved Index is a position the scan has reached, counted from the
\* first host of the Work Set
SavedIndexAbsolute == disk.saver # "idle" => disk.Index <= resumeCfg.currentIndex

\* The saved Index is ahead of the hosts handed over by one at most, and
\* ResumeFrom is the host at position Index or a later one
SavedCursorNearby ==
    /\ disk.saver # "idle" => disk.Index <= Handed + 1
    /\ disk.saver = "saved" =>
          \/ disk.ResumeFrom = <<>> /\ disk.Index = 0
          \/ \E j \in 1..Len(hm) : j >= disk.Index /\ hm[j].k = disk.ResumeFrom

\* C22: a cursor saved while the scan goes on is consistent: ResumeFrom is
\* the host at scan position Index, Index counts only hosts already handed
\* to a resolver worker, and on a resumed run Index is the absolute scan
\* position, the skipped prefix included.
C22_SavedCursorConsistent ==
    /\ SavedPairConsistent
    /\ SavedIndexHanded
    /\ CursorIsScanPosition /\ SavedIndexAbsolute
----------------------------------------------------------------------------
(* Runs with wildcard filtering in which every goroutine that can run does *)
(* run: the hosts of WildWorld, and a world in which no host has an        *)
(* address                                                                 *)

\* Every host is answered NXDOMAIN: answers are stored, no IP is found
DryWorld ==
    [QuietWorld EXCEPT
        !.dns = [h \in Range(WildPool) |-> {Resolved(NXDOMAIN, <<>>, <<>>)}]]

InitWildLive ==
    \E t \in 1..MaxThreads, th \in 1..MaxThreshold, e \in {WildWorld, DryWorld} :
        Constructed([DefaultOptions EXCEPT !.Threads = t, !.WildcardDomain = DomainYW,
                                           !.WildcardThreshold = th],
                    WildHosts, e, 0)

SpecWildLive == InitWildLive /\ [][NextWild]_vars /\ WF_vars(NextWild)

----------------------------------------------------------------------------
(* C23: the wildcard pass does not deadlock *)

\* The wildcard workers have been started
WildWorkersStarted == runPC \in {"enqueue", "wsend", "wwait"} \/ InEmission

\* The candidates of all groups
AllCandidates == UNION {Candidates(wc.ipDomain[ip]) : ip \in Range(wc.listIPs)}

\* min(Threads, distinct IPs) workers are started
WildWorkerCount ==
    WildWorkersStarted => Len(wc.ww) = Min(options.Threads, Len(wc.listIPs))

\* A send on wildcardworkerchan has a worker that has not left its loop
ReceiverExists ==
    runPC = "wsend" => \E i \in DOMAIN wc.ww : wc.ww[i].pc # "done"

\* The hosts received so far are the hosts sent, each received once
ReceivedOnce ==
    runPC \in {"enqueue", "wsend", "wwait"} =>
        /\ Cardinality(Range(wc.enqueued)) = Len(wc.enqueued)
        /\ wc.seen = Range(wc.enqueued) \cup (IF runPC = "wsend" THEN {wc.sending} ELSE {})
        /\ wc.seen \subseteq AllCandidates

\* The channel is closed when, and only when, every candidate was received
ClosedAfterLastCandidate ==
    /\ wc.closed <=> (runPC = "wwait" \/ InEmission)
    /\ wc.closed => Range(wc.enqueued) = AllCandidates

AllWildWorkersDone == \A i \in DOMAIN wc.ww : wc.ww[i].pc = "done"

\* C23: with Threads >= 1 the wildcard pass starts min(Threads, distinct IPs)
\* workers, a candidate that is sent finds a worker and is received by one
\* worker only, the channel is closed after the last candidate, and then all
\* workers exit and the coordinator's wait returns, also with no IP and with
\* no candidate.
C23_WildcardPassTerminates ==
    /\ [](/\ WildWorkerCount
          /\ ReceiverExists
          /\ ReceivedOnce
          /\ ClosedAfterLastCandidate)
    /\ (runPC = "wsend" ~> runPC = "enqueue")
    /\ (runPC = "wildcard" ~> (runPC = "emit" /\ AllWildWorkersDone))

\* The wait has returned after two workers received two candidates or more
C23_Witness ==
    /\ runPC = "emit"
    /\ Len(wc.ww) = 2
    /\ AllWildWorkersDone
    /\ Len(wc.enqueued) >= 2

\* Reached as well: the wait has returned in a run that found no IP (no
\* worker, no candidate)
ReturnedWithoutIPs == runPC = "emit" /\ wc.listIPs = <<>> /\ wc.closed

\* and in a run whose groups are all below the threshold
ReturnedWithoutCandidates ==
    runPC = "emit" /\ wc.listIPs # <<>> /\ wc.enqueued = <<>> /\ wc.closed
----------------------------------------------------------------------------
(* Runs with wildcard filtering whose input holds URLs *)

\* The URL of a host: a scheme, a colon, the host
URLOf(h) == <<"s", ":">> \o h

KeyLines == { WildPool[1], URLOf(WildPool[1]), WildPool[3], URLOf(WildPool[3]) }

\* Every host resolves to one address
KeyWorld ==
    [QuietWorld EXCEPT
        !.dns = [h \in Range(WildPool) |-> {Resolved(NOERROR, <<IP1>>, <<>>)}]]

InitKeys ==
    \E lines \in SeqsUpTo(KeyLines, MaxLines), t \in 1..MaxThreads :
        Constructed([DefaultOptions EXCEPT !.Threads = t, !.WildcardDomain = DomainYW],
                    lines, KeyWorld, 0)

SpecKeys == InitKeys /\ [][NextWild]_vars

----------------------------------------------------------------------------
(* C24: the resolve pass preserves the key set of the Work Set *)

\* The keys prepareInput gives the Work Set for this input
PreparedKeys == {normalize(inputLines[i]) : i \in 1..Len(inputLines)}

\* The host a worker queries for a key
QueriedHost(k) == IF isURL(k) THEN extractDomain(k) ELSE k

Prepared == runPC \notin {"prepare", "error"}

\* The resolve pass adds no key
NoKeyAdded == Prepared => hmKeySet(hm) = PreparedKeys

\* When the workers are over, every key that was scanned and answered has a
\* stored answer
AnsweredKeysStored ==
    WorkersOver =>
        \A k \in Range(hist.pushed) :
            QueriedHost(k) \in DOMAIN env.dns => Stored(k)

\* With an input without URLs the key set is preserved and every answered
\* key has its answer
KeysPreservedWithoutURLs ==
    (\A i \in 1..Len(inputLines) : ~isURL(normalize(inputLines[i])))
    => NoKeyAdded /\ AnsweredKeysStored

\* An answer is stored under the host that was queried: the keys are the
\* prepared ones and the hosts of the URLs among them, and the queried host
\* of every answered key has a stored answer
StoredUnderQueriedHost ==
    /\ Prepared =>
          /\ PreparedKeys \subseteq hmKeySet(hm)
          /\ hmKeySet(hm) \subseteq PreparedKeys \cup {QueriedHost(k) : k \in PreparedKeys}
          /\ NoDuplicateKeys(hm)
    /\ WorkersOver =>
          \A k \in Range(hist.pushed) :
              QueriedHost(k) \in DOMAIN env.dns => Stored(QueriedHost(k))

\* C24: with wildcard filtering every answer is stored under the key the
\* scan delivered, URLs included: the resolve pass adds no key to the Work
\* Set, and every scanned key that was answered has a stored answer
\* afterwards.
C24_KeySetPreserved == NoKeyAdded /\ AnsweredKeysStored

=============================================================================
